---------------------------- MODULE Spec2Model ----------------------------
(* Model of build_cv.py: the convergence diagram (MergingArrowsFlowable),   *)
(* the story assembly (build_story) and the output-file handling of main.   *)
(*                                                                          *)
(* Units.  Heights, gaps and paddings are in points, as in the source.      *)
(* Canvas coordinates are kept in HALF-POINTS (twice the source value), so  *)
(* that the source's "/ 2" stays exact in integer arithmetic: a source      *)
(* value v is held as 2*v and v/2 is held as v.                             *)
(*                                                                          *)
(* Text.  Paragraph.wrap of the layout library returns (number of wrapped   *)
(* lines) * (leading of the style).  The number of lines a text wraps to is *)
(* an input of the model: every label and bullet carries it.                *)
EXTENDS Integers, Sequences, FiniteSets, TLC

(***************************************************************************)
(* Bounds of the model                                                     *)
(***************************************************************************)
MaxInputs == 2
MaxOutputs == 2
MaxBullets == 2
MaxSources == 2
MaxRuns == 4
MaxDays == 2
MaxTextLen == 2

\* numbers of lines a label or a bullet may wrap to
LineChoices == {1, 2}
\* Python's None (an absent mapping entry)
None == "<None>"
\* key / label / source strings of the connection model
KeyChoices == {None, "a", "b"}
LabelChoices == {"", "a"}
SourceChoices == {"", "a", "b"}

(***************************************************************************)
(* Generic helpers                                                         *)
(***************************************************************************)
Max(a, b) == IF a >= b THEN a ELSE b

RECURSIVE SumSeq(_)
SumSeq(s) == IF s = <<>> THEN 0 ELSE Head(s) + SumSeq(Tail(s))

\* all sequences over S of length 0..n
SeqsUpTo(S, n) == UNION {[1..k -> S] : k \in 0..n}

\* Python truthiness of a string-or-None value
Falsy(v) == v = None \/ v = ""
\* Python "a or b"
Or(a, b) == IF Falsy(a) THEN b ELSE a

(***************************************************************************)
(* Geometry of MergingArrowsFlowable.__init__                              *)
(***************************************************************************)
\* A4[0] - LEFT_MARGIN - RIGHT_MARGIN = 487.56 pt, held in half-points
\* and truncated to a whole number of half-points
CONTENT_WIDTH2 == 975
left_x == 0
input_box_width == 152
input_box_height == 32
input_gap == 22
input_bullet_gap == 6
output_gap == 26
output_left == input_box_width + 110
output_box_width2 == CONTENT_WIDTH2 - 2 * output_left
junction_x == output_left - 45
output_padding_top == 8
output_padding_bottom == 8
output_bullet_gap == 6
output_min_height == 38
bullet_spacing == 3
input_padding == 8
top_padding == 8
bottom_padding == 8

\* leading of the four diagram paragraph styles (build_styles)
DiagramInputLeading == 12
DiagramLabelLeading == 13
DiagramBulletLeading == 12
DiagramInputBulletLeading == 11

VARIABLES
    pc,                  \* position of the diagram's life cycle
    mapping,             \* the experience_fusion mapping handed to __init__
    inputs,              \* self.inputs (normalized)
    processed_inputs,    \* self.processed_inputs
    processed_outputs,   \* self.processed_outputs
    input_height_total,  \* self.input_height_total
    output_height_total, \* self.output_height_total
    diagram_height,      \* self.diagram_height
    height,              \* self.height
    wrapped,             \* what wrap() returned last (<<width2, height>>)
    input_nodes,         \* result of _build_input_nodes in draw()
    output_nodes,        \* result of _build_output_nodes in draw()
    canvas               \* the draw calls issued on self.canv, in order

dvars == <<pc, mapping, inputs, processed_inputs, processed_outputs,
           input_height_total, output_height_total, diagram_height, height,
           wrapped, input_nodes, output_nodes, canvas>>

VARIABLES
    mpc,           \* position of a run of main ("idle": no run in progress)
    cv_data,       \* the content of cv_data.yaml
    fonts,         \* the font files present in FONT_DIR
    date,          \* the current date (a day number)
    runs,          \* runs started so far; also the clock of the time stamps
    files,         \* the artifacts in OUTPUT_DIR, each <<date tag, suffix>>
    archive,       \* the copies in ARCHIVE_DIR
    data,          \* main's local: the loaded data
    registered,    \* the fonts registered with pdfmetrics in this run
    output_file,   \* main's local: the path picked for this run
    story,         \* main's local: the story built from data
    files_before,  \* bookkeeping: OUTPUT_DIR as it was when the run started
    fs_ops         \* bookkeeping: the copies and writes of this run, in order

mvars == <<mpc, cv_data, fonts, date, runs, files, archive, data, registered,
           output_file, story, files_before, fs_ops>>

VARIABLES
    tpc,         \* position in the life of the diagram, for its texts
    t_input,     \* one entry of self.inputs with its texts: badge, label, bullets
    t_idx,       \* the position of that entry in the input list (0-based)
    t_output,    \* one entry of self.outputs with its texts: label, alias, bullets
    t_measured,  \* the markup composed and measured by _prepare_inputs/_outputs
    t_drawn      \* the markup drawn by _draw_input_nodes/_draw_output_nodes

tvars == <<tpc, t_input, t_idx, t_output, t_measured, t_drawn>>

vars == <<dvars, mvars, tvars>>

(***************************************************************************)
(* _normalize_inputs                                                       *)
(***************************************************************************)
\* One raw entry: str = TRUE is a bare string (held in label).
NormalizeEntry(entry) ==
    IF entry.str
    THEN [label |-> entry.label, key |-> entry.label, badge |-> None,
          bullets |-> <<>>, lines |-> entry.lines]
    ELSE [label |-> entry.label, key |-> Or(entry.key, entry.label),
          badge |-> entry.badge, bullets |-> entry.bullets,
          lines |-> entry.lines]

normalize_inputs(entries) ==
    [i \in 1..Len(entries) |-> NormalizeEntry(entries[i])]

(***************************************************************************)
(* _measure: Paragraph.wrap gives lines * leading                          *)
(***************************************************************************)
measure(lines, leading) == lines * leading

(***************************************************************************)
(* _prepare_inputs / _prepare_outputs                                      *)
(***************************************************************************)
BulletHeights(bullets, leading) ==
    [i \in 1..Len(bullets) |-> measure(bullets[i], leading)]

\* sum(bullet_heights) plus bullet_spacing between consecutive bullets
BulletHeightTotal(bullet_heights) ==
    SumSeq(bullet_heights)
    + (IF bullet_heights # <<>>
       THEN bullet_spacing * (Len(bullet_heights) - 1) ELSE 0)

InputBlockHeight(label_height, bullet_heights) ==
    Max(input_box_height,
        input_padding * 2 + label_height
        + (IF bullet_heights # <<>>
           THEN input_bullet_gap + BulletHeightTotal(bullet_heights) ELSE 0))

PrepareInput(entry) ==
    LET label_height == measure(entry.lines, DiagramInputLeading)
        bullet_heights == BulletHeights(entry.bullets, DiagramInputBulletLeading)
    IN  [label |-> entry.label, key |-> entry.key, badge |-> entry.badge,
         bullets |-> entry.bullets, lines |-> entry.lines,
         bullet_heights |-> bullet_heights,
         label_height |-> label_height,
         height |-> InputBlockHeight(label_height, bullet_heights)]

prepare_inputs(ins) == [i \in 1..Len(ins) |-> PrepareInput(ins[i])]

\* mutant: the gap between label and bullets is forgotten
OutputTotalHeightNoGap(label_height, bullet_heights) ==
    Max(output_padding_top + label_height
        + BulletHeightTotal(bullet_heights)
        + output_padding_bottom,
        output_min_height)

OutputTotalHeight(label_height, bullet_heights) ==
    Max(output_padding_top + label_height
        + (IF bullet_heights # <<>> THEN output_bullet_gap ELSE 0)
        + BulletHeightTotal(bullet_heights)
        + output_padding_bottom,
        output_min_height)

PrepareOutput(output) ==
    LET label_height == measure(output.lines, DiagramLabelLeading)
        bullet_heights == BulletHeights(output.bullets, DiagramBulletLeading)
    IN  [lines |-> output.lines, bullets |-> output.bullets,
         bullet_heights |-> bullet_heights,
         label_height |-> label_height,
         sources |-> output.sources,
         height |-> OutputTotalHeight(label_height, bullet_heights)]

prepare_outputs(outs) == [i \in 1..Len(outs) |-> PrepareOutput(outs[i])]

Heights(processed) == [i \in 1..Len(processed) |-> processed[i].height]

(***************************************************************************)
(* _compute_input_height / _compute_output_height                          *)
(***************************************************************************)
\* mutant: the guard for the empty list is dropped
compute_input_height_unguarded(processed) ==
    SumSeq(Heights(processed)) + input_gap * (Len(processed) - 1)

compute_input_height(processed) ==
    IF processed = <<>> THEN 0
    ELSE SumSeq(Heights(processed)) + input_gap * (Len(processed) - 1)

compute_output_height(processed) ==
    IF processed = <<>> THEN 0
    ELSE SumSeq(Heights(processed)) + output_gap * (Len(processed) - 1)

\* mutant: the output column is ignored
DiagramHeightInputsOnly(in_total, out_total) == in_total

DiagramHeight(in_total, out_total) == Max(in_total, out_total)

FlowableHeight(dh) == top_padding + dh + bottom_padding

(***************************************************************************)
(* __init__                                                                *)
(***************************************************************************)
Construct ==
    /\ pc = "new"
    /\ LET ins  == normalize_inputs(mapping.inputs)
           pin  == prepare_inputs(ins)
           pout == prepare_outputs(mapping.outputs)
           it   == compute_input_height(pin)
           ot   == compute_output_height(pout)
           dh   == DiagramHeight(it, ot)
       IN  /\ inputs' = ins
           /\ processed_inputs' = pin
           /\ processed_outputs' = pout
           /\ input_height_total' = it
           /\ output_height_total' = ot
           /\ diagram_height' = dh
           /\ height' = FlowableHeight(dh)
    /\ pc' = "constructed"
    /\ UNCHANGED <<mapping, wrapped, input_nodes, output_nodes, canvas>>
    /\ UNCHANGED <<mvars, tvars>>

(***************************************************************************)
(* wrap                                                                    *)
(***************************************************************************)
Wrap ==
    /\ pc = "constructed"
    /\ wrapped' = <<CONTENT_WIDTH2, height>>
    /\ pc' = "wrapped"
    /\ UNCHANGED <<mapping, inputs, processed_inputs, processed_outputs,
                   input_height_total, output_height_total, diagram_height,
                   height, input_nodes, output_nodes, canvas>>
    /\ UNCHANGED <<mvars, tvars>>

(***************************************************************************)
(* _build_input_nodes / _build_output_nodes                                *)
(* y coordinates in half-points                                            *)
(***************************************************************************)
\* mutant: the gap between nodes is never added
OffsetBeforeNoGap(processed, i, gap) ==
    SumSeq([j \in 1..(i - 1) |-> processed[j].height])

\* the loop variable "offset" on entry to the iteration of node i (1-based)
RECURSIVE OffsetBefore(_, _, _)
OffsetBefore(processed, i, gap) ==
    IF i = 1 THEN 0
    ELSE OffsetBefore(processed, i - 1, gap) + processed[i - 1].height
         + (IF i - 1 < Len(processed) THEN gap ELSE 0)

\* mutant: every column starts at the top, the shorter one is not centred
StartTop2TopAligned(h, dh, total) == 2 * (h - top_padding)

\* start_top = self.height - self.top_padding - (diagram_height - total) / 2
StartTop2(h, dh, total) == 2 * (h - top_padding) - (dh - total)

\* center_y = start_top - offset - box_height / 2
CenterY2(start_top2, offset, box_height) == start_top2 - 2 * offset - box_height

build_input_nodes(processed, h, dh, total) ==
    IF processed = <<>> THEN <<>>
    ELSE [i \in 1..Len(processed) |->
            [label |-> processed[i].label,
             badge |-> processed[i].badge,
             key |-> Or(processed[i].key, processed[i].label),
             center |-> <<2 * left_x + input_box_width,
                          CenterY2(StartTop2(h, dh, total),
                                   OffsetBefore(processed, i, input_gap),
                                   processed[i].height)>>,
             height |-> processed[i].height,
             entry |-> processed[i]]]

build_output_nodes(processed, h, dh, total) ==
    IF processed = <<>> THEN <<>>
    ELSE [i \in 1..Len(processed) |->
            [center |-> <<2 * output_left + output_box_width2 \div 2,
                          CenterY2(StartTop2(h, dh, total),
                                   OffsetBefore(processed, i, output_gap),
                                   processed[i].height)>>,
             data |-> processed[i]]]

(***************************************************************************)
(* Canvas calls.  op and args are what the code passes to the canvas (in   *)
(* half-points); col / idx / src are bookkeeping that records which loop   *)
(* iteration issued the call: col is "conn", "in", "out" or "", idx the    *)
(* 1-based node index and src the 1-based index into sources (0: none).    *)
(***************************************************************************)
Call(op, args, col, idx, src) ==
    [op |-> op, args |-> args, col |-> col, idx |-> idx, src |-> src]

RECURSIVE Concat(_, _)
\* f[1] \o f[2] \o ... \o f[n]
Concat(f, n) == IF n = 0 THEN <<>> ELSE Concat(f, n - 1) \o f[n]

(***************************************************************************)
(* _draw_connections, _draw_curve, _draw_arrow, _draw_arrowhead            *)
(***************************************************************************)
EmptyMap == [k \in {} |-> <<>>]
MapPut(m, k, v) == [x \in DOMAIN m \cup {k} |-> IF x = k THEN v ELSE m[x]]
\* dict.get: None when the key is absent
MapGet(m, k) == IF k \in DOMAIN m THEN m[k] ELSE None

\* the body of "for key in keys" for one key of one node
PutKey(m, key, node) ==
    IF Falsy(key) THEN m
    ELSE MapPut(m, key, <<2 * (left_x + input_box_width), node.center[2]>>)

\* mutant: only the keys are registered, not the labels
RECURSIVE InputMapKeysOnly(_, _)
InputMapKeysOnly(nodes, n) ==
    IF n = 0 THEN EmptyMap
    ELSE PutKey(InputMapKeysOnly(nodes, n - 1), nodes[n].key, nodes[n])

\* input_map after the first n nodes: key first, then label, later nodes
\* overwrite earlier ones
RECURSIVE InputMap(_, _)
InputMap(nodes, n) ==
    IF n = 0 THEN EmptyMap
    ELSE PutKey(PutKey(InputMap(nodes, n - 1), nodes[n].key, nodes[n]),
                nodes[n].label, nodes[n])

\* ctrl_offset = max(18.0, (junction_x - (left_x + input_box_width)) * 0.6)
curve_min_offset == 18
CtrlOffset2 ==
    Max(2 * curve_min_offset,
        (2 * (junction_x - (left_x + input_box_width)) * 6) \div 10)

\* mutant: the curve ends at the height of its start
draw_curve_flat(start, end, idx, src) ==
    <<Call("bezier",
           <<start[1], start[2], start[1] + CtrlOffset2, start[2],
             end[1] - CtrlOffset2, start[2], end[1], start[2]>>,
           "conn", idx, src)>>

draw_curve(start, end, idx, src) ==
    <<Call("bezier",
           <<start[1], start[2], start[1] + CtrlOffset2, start[2],
             end[1] - CtrlOffset2, end[2], end[1], end[2]>>,
           "conn", idx, src)>>

\* size * cos(pi / 8) and size * sin(pi / 8) with size = 6, in half-points,
\* rounded to the nearest half-point (11.09 and 4.59)
ArrowheadDx2 == 11
ArrowheadDy2 == 5

\* the angle is atan2(0, dx) with dx > 0, i.e. 0: start and end of every
\* arrow share their y and the arrow points right
draw_arrowhead(tip, idx) ==
    <<Call("line", <<tip[1], tip[2], tip[1] - ArrowheadDx2, tip[2] - ArrowheadDy2>>,
           "conn", idx, 0),
      Call("line", <<tip[1], tip[2], tip[1] - ArrowheadDx2, tip[2] + ArrowheadDy2>>,
           "conn", idx, 0)>>

draw_arrow(start, end, idx) ==
    <<Call("line", <<start[1], start[2], end[1], end[2]>>, "conn", idx, 0)>>
    \o draw_arrowhead(end, idx)

\* the body of "for source_label in entry['sources']" for source number s
SourceCurve(input_map, node, idx, s) ==
    LET start == MapGet(input_map, node.data.sources[s])
        dest == <<2 * junction_x, node.center[2]>>
    IN  IF start = None THEN <<>> ELSE draw_curve(start, dest, idx, s)

\* mutant: the arrow is drawn only for an output that got a curve
OutputConnectionsArrowIfCurve(input_map, node, idx) ==
    LET curves == Concat([s \in 1..Len(node.data.sources) |->
                             SourceCurve(input_map, node, idx, s)],
                         Len(node.data.sources))
    IN  IF curves = <<>> THEN <<>>
        ELSE curves \o draw_arrow(<<2 * junction_x, node.center[2]>>,
                                  <<2 * (output_left - 6), node.center[2]>>, idx)

\* the body of "for node in outputs" for output number idx
OutputConnections(input_map, node, idx) ==
    Concat([s \in 1..Len(node.data.sources) |->
               SourceCurve(input_map, node, idx, s)],
           Len(node.data.sources))
    \o draw_arrow(<<2 * junction_x, node.center[2]>>,
                  <<2 * (output_left - 6), node.center[2]>>, idx)

draw_connections(in_nodes, out_nodes) ==
    LET input_map == InputMap(in_nodes, Len(in_nodes))
    IN  Concat([i \in 1..Len(out_nodes) |->
                   OutputConnections(input_map, out_nodes[i], i)],
               Len(out_nodes))

(***************************************************************************)
(* _draw_input_nodes / _draw_output_nodes                                  *)
(***************************************************************************)
\* bullets drawn downwards from cursor_y; each at cursor_y - para_height
RECURSIVE BulletCalls(_, _, _, _, _, _)
BulletCalls(heights, n, cursor2, x2, col, idx) ==
    IF n = 0 THEN <<>>
    ELSE BulletCalls(heights, n - 1, cursor2, x2, col, idx)
         \o <<Call("drawOn",
                   <<x2,
                     cursor2
                     - 2 * (SumSeq(SubSeq(heights, 1, n))
                            + bullet_spacing * (n - 1))>>,
                   col, idx, 0)>>

input_corner_radius == 6
output_corner_radius == 8

DrawInputNode(node, idx) ==
    LET y_center2 == node.center[2]
        box_height == node.height
        box_top2 == y_center2 + box_height
        box_left2 == 2 * left_x
        label_height == measure(node.entry.lines, DiagramInputLeading)
        heights == node.entry.bullet_heights
    IN  <<Call("roundRect",
               <<box_left2, y_center2 - box_height, 2 * input_box_width,
                 2 * box_height, 2 * input_corner_radius>>, "in", idx, 0),
          Call("drawOn",
               <<box_left2 + 2 * input_padding,
                 box_top2 - 2 * input_padding - 2 * label_height>>,
               "in", idx, 0)>>
        \o BulletCalls(heights, Len(heights),
                       box_top2 - 2 * input_padding - 2 * label_height
                       - 2 * input_bullet_gap,
                       box_left2 + 2 * input_padding, "in", idx)

draw_input_nodes(nodes) ==
    Concat([i \in 1..Len(nodes) |-> DrawInputNode(nodes[i], i)], Len(nodes))

DrawOutputNode(node, idx) ==
    LET entry == node.data
        y_center2 == node.center[2]
        h == entry.height
        top_y2 == y_center2 + h - 2 * output_padding_top
        label_height == measure(entry.lines, DiagramLabelLeading)
        heights == entry.bullet_heights
    IN  <<Call("roundRect",
               <<2 * output_left, y_center2 - h, output_box_width2, 2 * h,
                 2 * output_corner_radius>>, "out", idx, 0),
          Call("drawOn",
               <<2 * (output_left + 8), top_y2 - 2 * label_height>>,
               "out", idx, 0)>>
        \o BulletCalls(heights, Len(heights),
                       top_y2 - 2 * label_height - 2 * output_bullet_gap,
                       2 * (output_left + 12), "out", idx)

draw_output_nodes(nodes) ==
    Concat([i \in 1..Len(nodes) |-> DrawOutputNode(nodes[i], i)], Len(nodes))

(***************************************************************************)
(* draw                                                                    *)
(***************************************************************************)
\* mutant: the boxes are drawn first and the connections on top of them
DrawBoxesFirst ==
    /\ pc = "wrapped"
    /\ LET in_nodes == build_input_nodes(processed_inputs, height,
                                         diagram_height, input_height_total)
           out_nodes == build_output_nodes(processed_outputs, height,
                                           diagram_height, output_height_total)
       IN  /\ input_nodes' = in_nodes
           /\ output_nodes' = out_nodes
           /\ canvas' = <<Call("saveState", <<>>, "", 0, 0),
                          Call("setStrokeColor", <<>>, "", 0, 0),
                          Call("setLineWidth", <<>>, "", 0, 0)>>
                        \o draw_input_nodes(in_nodes)
                        \o draw_output_nodes(out_nodes)
                        \o draw_connections(in_nodes, out_nodes)
                        \o <<Call("restoreState", <<>>, "", 0, 0)>>
    /\ pc' = "drawn"
    /\ UNCHANGED <<mapping, inputs, processed_inputs, processed_outputs,
                   input_height_total, output_height_total, diagram_height,
                   height, wrapped>>
    /\ UNCHANGED <<mvars, tvars>>

Draw ==
    /\ pc = "wrapped"
    /\ LET in_nodes == build_input_nodes(processed_inputs, height,
                                         diagram_height, input_height_total)
           out_nodes == build_output_nodes(processed_outputs, height,
                                           diagram_height, output_height_total)
       IN  /\ input_nodes' = in_nodes
           /\ output_nodes' = out_nodes
           /\ canvas' = <<Call("saveState", <<>>, "", 0, 0),
                          Call("setStrokeColor", <<>>, "", 0, 0),
                          Call("setLineWidth", <<>>, "", 0, 0)>>
                        \o draw_connections(in_nodes, out_nodes)
                        \o draw_input_nodes(in_nodes)
                        \o draw_output_nodes(out_nodes)
                        \o <<Call("restoreState", <<>>, "", 0, 0)>>
    /\ pc' = "drawn"
    /\ UNCHANGED <<mapping, inputs, processed_inputs, processed_outputs,
                   input_height_total, output_height_total, diagram_height,
                   height, wrapped>>
    /\ UNCHANGED <<mvars, tvars>>

(***************************************************************************)
(* Inputs of the model                                                     *)
(***************************************************************************)
BulletChoices == SeqsUpTo({1}, MaxBullets)

\* entries that vary in size: mappings with one-line labels and 0..MaxBullets
\* bullets, and bare strings that wrap to one or two lines
LayoutInputEntries ==
    [str : {FALSE}, label : {"a"}, key : {None}, badge : {None},
     lines : {1}, bullets : BulletChoices]
    \cup
    [str : {TRUE}, label : {"a"}, key : {None}, badge : {None},
     lines : LineChoices, bullets : {<<>>}]

LayoutOutputEntries ==
    [lines : LineChoices, bullets : BulletChoices, sources : {<<"a">>}]

\* entries that vary in key, label and sources (one line each, no bullets)
ConnInputEntries ==
    [str : {FALSE}, label : LabelChoices, key : KeyChoices, badge : {None},
     lines : {1}, bullets : {<<>>}]

ConnOutputEntries(n) ==
    [lines : {1}, bullets : {<<>>}, sources : SeqsUpTo(SourceChoices, n)]

\* one output with up to MaxSources sources, or up to MaxOutputs outputs with
\* at most one source each
ConnOutputLists ==
    [1..1 -> ConnOutputEntries(MaxSources)]
    \cup SeqsUpTo(ConnOutputEntries(1), MaxOutputs)

InitRest ==
    /\ pc = "new"
    /\ inputs = <<>>
    /\ processed_inputs = <<>>
    /\ processed_outputs = <<>>
    /\ input_height_total = 0
    /\ output_height_total = 0
    /\ diagram_height = 0
    /\ height = 0
    /\ wrapped = <<>>
    /\ input_nodes = <<>>
    /\ output_nodes = <<>>
    /\ canvas = <<>>

(***************************************************************************)
(* The texts of the diagram.  A text is a sequence of characters, each a   *)
(* string of length one; NoText is Python's None in the place of a text.   *)
(***************************************************************************)
NoText == <<None>>
\* truthiness of a text-or-None value, and Python's "a or b" on texts
TextFalsy(t) == t = NoText \/ t = <<>>
TextOr(a, b) == IF TextFalsy(a) THEN b ELSE a

RECURSIVE Replace(_, _, _)
\* str.replace for a one-character pattern
Replace(s, c, r) ==
    IF s = <<>> THEN <<>>
    ELSE (IF Head(s) = c THEN r ELSE <<Head(s)>>) \o Replace(Tail(s), c, r)

AmpEntity == <<"&", "a", "m", "p", ";">>
GtEntity == <<"&", "g", "t", ";">>
LtEntity == <<"&", "l", "t", ";">>

\* mutant: "<" is not replaced
escape_without_lt(text) ==
    Replace(Replace(text, "&", AmpEntity), ">", GtEntity)

\* xml.sax.saxutils.escape without an entities dictionary: "&" first, then
\* ">" and "<"
escape(text) ==
    Replace(Replace(Replace(text, "&", AmpEntity), ">", GtEntity), "<", LtEntity)

\* _escape_text: escape(text or "")
escape_text(text) == escape(TextOr(text, <<>>))

DigitChars == <<"0", "1", "2", "3", "4", "5", "6", "7", "8", "9">>
RECURSIVE Str(_)
\* str(n) for n >= 0
Str(n) ==
    IF n < 10 THEN <<DigitChars[n + 1]>>
    ELSE Str(n \div 10) \o <<DigitChars[(n % 10) + 1]>>

\* f"{escape(str(prefix))}. {escape(label)}" (lines 400 and 570)
InputLabelMarkup(prefix, label) ==
    escape_text(prefix) \o <<".", " ">> \o escape_text(label)

\* f"&bull;&nbsp;{escape(text)}" (lines 403 and 438)
BulletPrefix == <<"&", "b", "u", "l", "l", ";", "&", "n", "b", "s", "p", ";">>
BulletMarkup(text) == BulletPrefix \o escape_text(text)
BulletMarkups(bullets) ==
    [i \in 1..Len(bullets) |-> BulletMarkup(bullets[i])]

\* _prepare_inputs: placeholder_prefix = entry.get("badge") or "0"
MeasuredInputLabel(entry) ==
    InputLabelMarkup(TextOr(entry.badge, <<"0">>), entry.label)

\* _draw_input_nodes: prefix = node.get("badge") or str(idx + 1)
DrawnInputLabel(node, idx) ==
    InputLabelMarkup(TextOr(node.badge, Str(idx + 1)), node.label)

\* _label_markup
label_markup(output) ==
    IF TextFalsy(output.alias) THEN escape_text(output.label)
    ELSE escape_text(output.label) \o <<" ">> \o escape_text(output.alias)

\* the markups of _prepare_inputs (lines 399-404) and _prepare_outputs
\* (lines 435-439)
PrepareMarkup ==
    /\ tpc = "new"
    /\ t_measured' = [in_label |-> MeasuredInputLabel(t_input),
                      in_bullets |-> BulletMarkups(t_input.bullets),
                      out_label |-> label_markup(t_output),
                      out_bullets |-> BulletMarkups(t_output.bullets)]
    /\ tpc' = "prepared"
    /\ UNCHANGED <<t_input, t_idx, t_output, t_drawn>>
    /\ UNCHANGED <<dvars, mvars>>

\* the markups drawn: the input label is composed again (lines 569-571), the
\* bullets and the output label are the stored ones (lines 580, 618, 622)
DrawMarkup ==
    /\ tpc = "prepared"
    /\ t_drawn' = [in_label |-> DrawnInputLabel(t_input, t_idx),
                   in_bullets |-> t_measured.in_bullets,
                   out_label |-> t_measured.out_label,
                   out_bullets |-> t_measured.out_bullets]
    /\ tpc' = "drawn"
    /\ UNCHANGED <<t_input, t_idx, t_output, t_measured>>
    /\ UNCHANGED <<dvars, mvars>>

\* the characters of the texts: the markup-reserved ones, the two quotes
\* and a plain letter
TextChars == {"&", "<", ">", "\"", "'", "x"}
Texts == SeqsUpTo(TextChars, MaxTextLen)
ShortTexts == SeqsUpTo(TextChars, 1)

PlainInput == [badge |-> NoText, label |-> <<"x">>, bullets |-> <<>>]
PlainOutput == [label |-> <<"x">>, alias |-> NoText, bullets |-> <<>>]

TextInputs ==
    [badge : {NoText} \cup ShortTexts, label : Texts,
     bullets : SeqsUpTo(ShortTexts, 1)]
TextOutputs ==
    [label : Texts, alias : {NoText} \cup ShortTexts,
     bullets : SeqsUpTo(ShortTexts, 1)]

TextRest ==
    /\ tpc = "new"
    /\ t_measured = <<>>
    /\ t_drawn = <<>>

\* the texts are not part of the other specifications
TextIdle ==
    /\ t_input = PlainInput
    /\ t_idx = 0
    /\ t_output = PlainOutput
    /\ TextRest

(***************************************************************************)
(* main: the data file, the fonts, the output directory                    *)
(***************************************************************************)

\* register_fonts: the three files, in the order of the dictionary
FontFiles == <<"EBGaramond-Regular.ttf", "EBGaramond-SemiBold.ttf",
               "EBGaramond-Bold.ttf">>
FontSet == {FontFiles[i] : i \in 1..Len(FontFiles)}

\* mutant: a missing font file is not noticed
FirstMissingFontNone(present) == 0

\* the index of the first missing font file, 0 when none is missing
FirstMissingFont(present) ==
    IF \A i \in 1..Len(FontFiles) : FontFiles[i] \in present THEN 0
    ELSE CHOOSE i \in 1..Len(FontFiles) :
            /\ FontFiles[i] \notin present
            /\ \A j \in 1..(i - 1) : FontFiles[j] \in present

(***************************************************************************)
(* output_path_for_today.  A name <<d, 0>> is executive_cv_<d>.pdf and     *)
(* <<d, n>> with n > 0 is executive_cv_<d>_<n>.pdf.                        *)
(***************************************************************************)
\* mutant: the loop is left at once, whatever exists
FirstFreeSuffixNoLoop(existing, date_tag, suffix) == suffix

RECURSIVE FirstFreeSuffix(_, _, _)
\* the while loop: the first suffix from "suffix" on whose name is free
FirstFreeSuffix(existing, date_tag, suffix) ==
    IF <<date_tag, suffix>> \notin existing THEN suffix
    ELSE FirstFreeSuffix(existing, date_tag, suffix + 1)

output_path_for_today(existing, date_tag) ==
    IF <<date_tag, 0>> \notin existing THEN <<date_tag, 0>>
    ELSE <<date_tag, FirstFreeSuffix(existing, date_tag, 1)>>

(***************************************************************************)
(* build_story and the section builders.  An element of the story is held  *)
(* as its kind, its text (for titles) and, as bookkeeping, the section of  *)
(* the document it belongs to.                                             *)
(***************************************************************************)
El(kind, text, section) == [kind |-> kind, text |-> text, section |-> section]

subtle_divider ==
    <<El("Spacer", "", "divider"), El("HRFlowable", "", "divider"),
      El("Spacer", "", "divider")>>

\* data.experience_fusion: "absent", "bare" (no description) or "described"
experience_fusion_section(d) ==
    IF d.experience_fusion = "absent" THEN <<>>
    ELSE <<El("Paragraph", "Experience Fusion", "experience_fusion")>>
         \o (IF d.experience_fusion = "described"
             THEN <<El("Paragraph", "description", "experience_fusion"),
                    El("Spacer", "", "experience_fusion")>>
             ELSE <<>>)
         \o <<El("MergingArrowsFlowable", "", "experience_fusion"),
              El("Spacer", "", "experience_fusion")>>

\* data.experience: "absent", "ok" (one item with bullets) or "malformed"
\* (one item without its role: item['role'] raises KeyError)
experience_section(d) ==
    IF d.experience = "absent" THEN <<>>
    ELSE <<El("Paragraph", "role | company", "experience"),
           El("Paragraph", "period - location", "experience"),
           El("ListFlowable", "", "experience"),
           El("Spacer", "", "experience")>>

education_section(d) ==
    IF ~d.education THEN <<>> ELSE <<El("Table", "", "education")>>

skill_tags(d) ==
    IF ~d.skills THEN <<>> ELSE <<El("Table", "", "skills")>>

compact_info_section(title, present) ==
    IF ~present THEN <<>>
    ELSE <<El("Paragraph", title, "additional"),
           El("Paragraph", "values", "additional"),
           El("Spacer", "", "additional")>>

\* build_story raises when a required field is missing
StoryRaises(d) == d.experience = "malformed"

build_story(d) ==
    <<El("Table", "", "header"), El("Spacer", "", "header")>>
    \o subtle_divider
    \o <<El("Paragraph", "Executive Summary", "summary"),
         El("ListFlowable", "", "summary"),
         El("Spacer", "", "summary")>>
    \o experience_fusion_section(d)
    \o subtle_divider
    \o <<El("Paragraph", "Signature Highlights", "signature_highlights"),
         El("Table", "", "signature_highlights"),
         El("Spacer", "", "signature_highlights")>>
    \o subtle_divider
    \o <<El("Paragraph", "Experience", "experience")>>
    \o experience_section(d)
    \o subtle_divider
    \o <<El("Paragraph", "Education", "education")>>
    \o education_section(d)
    \o <<El("Paragraph", "Skills", "skills")>>
    \o skill_tags(d)
    \o (IF d.languages \/ d.interests
        THEN <<El("Paragraph", "Additional", "additional")>>
             \o compact_info_section("Languages", d.languages)
             \o compact_info_section("Interests", d.interests)
        ELSE <<>>)

(***************************************************************************)
(* main, step by step                                                      *)
(***************************************************************************)
\* line 844: load_data
LoadData ==
    /\ mpc = "idle"
    /\ runs < MaxRuns
    /\ runs' = runs + 1
    /\ data' = cv_data
    /\ files_before' = files
    /\ mpc' = "register_fonts"
    /\ UNCHANGED <<cv_data, fonts, date, files, archive, registered,
                   output_file, story, fs_ops>>
    /\ UNCHANGED <<dvars, tvars>>

\* line 845: register_fonts, raising FileNotFoundError at the first missing
\* file (the fonts before it are registered)
RegisterFonts ==
    /\ mpc = "register_fonts"
    /\ LET m == FirstMissingFont(fonts)
       IN  IF m = 0
           THEN /\ registered' = FontSet
                /\ mpc' = "prepare"
           ELSE /\ registered' = {FontFiles[j] : j \in 1..(m - 1)}
                /\ mpc' = "failed"
    /\ UNCHANGED <<cv_data, fonts, date, runs, files, archive, data,
                   output_file, story, files_before, fs_ops>>
    /\ UNCHANGED <<dvars, tvars>>

ArchiveName(stamp, name) == <<stamp, name>>

\* lines 846-853: build_styles, the two mkdir, output_path_for_today and the
\* archive copy of an artifact found at the path picked
PrepareOutputFile ==
    /\ mpc = "prepare"
    /\ LET picked == output_path_for_today(files, date)
       IN  /\ output_file' = picked
           /\ IF picked \in files
              THEN /\ archive' =
                        archive \cup {ArchiveName(<<date, runs>>, picked)}
                   /\ fs_ops' = Append(fs_ops,
                        <<"copy", picked, ArchiveName(<<date, runs>>, picked)>>)
              ELSE UNCHANGED <<archive, fs_ops>>
    /\ mpc' = "build"
    /\ UNCHANGED <<cv_data, fonts, date, runs, files, data, registered, story,
                   files_before>>
    /\ UNCHANGED <<dvars, tvars>>

\* lines 854-864: the document template, build_story and doc.build, which
\* writes the artifact; a KeyError of build_story ends the run before it
BuildDocument ==
    /\ mpc = "build"
    /\ IF StoryRaises(data)
       THEN /\ mpc' = "failed"
            /\ UNCHANGED <<story, files, fs_ops>>
       ELSE /\ story' = build_story(data)
            /\ files' = files \cup {output_file}
            /\ fs_ops' = Append(fs_ops, <<"write", output_file>>)
            /\ mpc' = "done"
    /\ UNCHANGED <<cv_data, fonts, date, runs, archive, data, registered,
                   output_file, files_before>>
    /\ UNCHANGED <<dvars, tvars>>

\* the process ends (normally or with the exception); its memory is gone
Exit ==
    /\ mpc \in {"done", "failed"}
    /\ mpc' = "idle"
    /\ data' = None
    /\ registered' = {}
    /\ output_file' = None
    /\ story' = <<>>
    /\ fs_ops' = <<>>
    /\ UNCHANGED <<cv_data, fonts, date, runs, files, archive, files_before>>
    /\ UNCHANGED <<dvars, tvars>>

(***************************************************************************)
(* The environment between two runs                                        *)
(***************************************************************************)
\* midnight passes
NextDay ==
    /\ mpc = "idle"
    /\ date < MaxDays
    /\ date' = date + 1
    /\ UNCHANGED <<mpc, cv_data, fonts, runs, files, archive, data,
                   registered, output_file, story, files_before, fs_ops>>
    /\ UNCHANGED <<dvars, tvars>>

\* the user deletes an artifact
RemoveFile ==
    /\ mpc = "idle"
    /\ \E f \in files : files' = files \ {f}
    /\ UNCHANGED <<mpc, cv_data, fonts, date, runs, archive, data,
                   registered, output_file, story, files_before, fs_ops>>
    /\ UNCHANGED <<dvars, tvars>>

\* the user deletes a font file
RemoveFont ==
    /\ mpc = "idle"
    /\ \E f \in fonts : fonts' = fonts \ {f}
    /\ UNCHANGED <<mpc, cv_data, date, runs, files, archive, data,
                   registered, output_file, story, files_before, fs_ops>>
    /\ UNCHANGED <<dvars, tvars>>

DataChoices ==
    [experience_fusion : {"absent", "bare", "described"},
     experience : {"ok", "malformed"},
     education : BOOLEAN, skills : BOOLEAN,
     languages : BOOLEAN, interests : {FALSE}]

InitMainRest ==
    /\ mpc = "idle"
    /\ date = 1
    /\ runs = 0
    /\ files = {}
    /\ archive = {}
    /\ data = None
    /\ registered = {}
    /\ output_file = None
    /\ story = <<>>
    /\ files_before = {}
    /\ fs_ops = <<>>

\* the diagram is not part of the runs of main
DiagramIdle ==
    /\ mapping = [inputs |-> <<>>, outputs |-> <<>>]
    /\ InitRest

\* main is not part of the life of a diagram
MainIdle ==
    /\ cv_data = None
    /\ fonts = FontSet
    /\ InitMainRest

InitMain ==
    /\ cv_data \in DataChoices
    /\ fonts \in SUBSET FontSet
    /\ InitMainRest
    /\ DiagramIdle
    /\ TextIdle

NextMain ==
    \/ LoadData \/ RegisterFonts \/ PrepareOutputFile \/ BuildDocument
    \/ Exit \/ NextDay \/ RemoveFile \/ RemoveFont


(***************************************************************************)
(* The specifications                                                      *)
(***************************************************************************)
Init ==
    /\ mapping \in [inputs : SeqsUpTo(LayoutInputEntries, MaxInputs),
                    outputs : SeqsUpTo(LayoutOutputEntries, MaxOutputs)]
    /\ InitRest
    /\ MainIdle
    /\ TextIdle

InitConn ==
    /\ mapping \in [inputs : SeqsUpTo(ConnInputEntries, MaxInputs),
                    outputs : ConnOutputLists]
    /\ InitRest
    /\ MainIdle
    /\ TextIdle

Next == Construct \/ Wrap \/ Draw

\* the diagram over mappings that vary in size
Spec == Init /\ [][Next]_vars
\* the diagram over mappings that vary in keys, labels and sources
SpecConn == InitConn /\ [][Next]_vars

\* the runs of main
SpecMain == InitMain /\ [][NextMain]_vars

\* an input entry with arbitrary texts at any position next to a plain
\* output, or a plain input next to an output with arbitrary texts
InitText ==
    /\ \/ /\ t_input \in TextInputs
          /\ t_idx \in 0..(MaxInputs - 1)
          /\ t_output = PlainOutput
       \/ /\ t_input = PlainInput
          /\ t_idx = 0
          /\ t_output \in TextOutputs
    /\ TextRest
    /\ DiagramIdle
    /\ MainIdle

NextText == PrepareMarkup \/ DrawMarkup

\* the texts of the diagram
SpecText == InitText /\ [][NextText]_vars

(***************************************************************************)
(* Properties of the diagram                                               *)
(***************************************************************************)
\* indices of the canvas calls with a given op in a given column
CallsOf(op, col) ==
    {k \in 1..Len(canvas) : canvas[k].op = op /\ canvas[k].col = col}
\* the calls with a given op of a column, in the order they were issued
CallSeq(op, col) ==
    SelectSeq(canvas, LAMBDA c : c.op = op /\ c.col = col)
\* the curves drawn for entry s of the sources of output o
Curves(o, s) ==
    {k \in CallsOf("bezier", "conn") : canvas[k].idx = o /\ canvas[k].src = s}
\* bottom and top edge of a roundRect call (half-points)
RectBottom2(c) == c.args[2]
RectTop2(c) == c.args[2] + c.args[4]

\* sum of the node heights plus one gap between consecutive nodes
RECURSIVE ColumnSum(_, _, _)
ColumnSum(processed, n, gap) ==
    IF n = 0 THEN 0
    ELSE ColumnSum(processed, n - 1, gap) + processed[n].height
         + (IF n > 1 THEN gap ELSE 0)

\* the source strings that name an input node: its key or its label
NamesInput(text, i) == inputs[i].key = text \/ inputs[i].label = text

\* C1 (as amended): for every output and every entry of its sources exactly
\* one curve is drawn for the entry if the entry is a non-empty string equal
\* to the key or the label of some input node, and none otherwise; no other
\* curve is drawn, so an unmatched entry changes nothing for the others.
C1_CurvePerNonEmptyMatch ==
    pc = "drawn" =>
        /\ \A o \in 1..Len(processed_outputs) :
             \A s \in 1..Len(processed_outputs[o].sources) :
                LET text == processed_outputs[o].sources[s]
                IN  Cardinality(Curves(o, s)) =
                        IF text # "" /\ \E i \in 1..Len(inputs) : NamesInput(text, i)
                        THEN 1 ELSE 0
        /\ \A k \in CallsOf("bezier", "conn") :
             /\ canvas[k].idx \in 1..Len(processed_outputs)
             /\ canvas[k].src \in 1..Len(processed_outputs[canvas[k].idx].sources)

\* C1 as stated: a curve for every entry equal to the key or the label of
\* some input node, the empty string included.
C1_CurvePerMatch ==
    pc = "drawn" =>
        \A o \in 1..Len(processed_outputs) :
           \A s \in 1..Len(processed_outputs[o].sources) :
              LET text == processed_outputs[o].sources[s]
              IN  Cardinality(Curves(o, s)) =
                      IF \E i \in 1..Len(inputs) : NamesInput(text, i)
                      THEN 1 ELSE 0

\* an output with a matched entry (one curve) next to an unmatched one (none)
C1_Witness ==
    /\ pc = "drawn"
    /\ \E o \in 1..Len(processed_outputs) :
          /\ Len(processed_outputs[o].sources) = 2
          /\ \E s, t \in 1..2 :
                /\ Cardinality(Curves(o, s)) = 1
                /\ Cardinality(Curves(o, t)) = 0
                /\ processed_outputs[o].sources[t] # ""

\* C3: in both columns the boxes are drawn in source order, each box's
\* bottom edge exactly one column gap (22 for inputs, 26 for outputs) above
\* the top edge of the next box, so boxes of one column never overlap.
C3_StackedInOrder ==
    pc = "drawn" =>
        LET ins == CallSeq("roundRect", "in")
            outs == CallSeq("roundRect", "out")
        IN  /\ Len(ins) = Len(mapping.inputs)
            /\ Len(outs) = Len(mapping.outputs)
            /\ \A i \in 1..Len(ins) :
                 /\ ins[i].idx = i
                 /\ ins[i].args[4] =
                      2 * PrepareInput(NormalizeEntry(mapping.inputs[i])).height
            /\ \A i \in 1..Len(outs) :
                 /\ outs[i].idx = i
                 /\ outs[i].args[4] = 2 * PrepareOutput(mapping.outputs[i]).height
            /\ \A i \in 1..(Len(ins) - 1) :
                 /\ RectBottom2(ins[i]) - RectTop2(ins[i + 1]) = 2 * 22
                 /\ RectBottom2(ins[i]) > RectTop2(ins[i + 1])
            /\ \A i \in 1..(Len(outs) - 1) :
                 /\ RectBottom2(outs[i]) - RectTop2(outs[i + 1]) = 2 * 26
                 /\ RectBottom2(outs[i]) > RectTop2(outs[i + 1])

\* two boxes of different height in each column
C3_Witness ==
    /\ pc = "drawn"
    /\ Len(processed_inputs) = 2
    /\ Len(processed_outputs) = 2
    /\ processed_inputs[1].height # processed_inputs[2].height
    /\ processed_outputs[1].height # processed_outputs[2].height

\* C4: with both lists non-empty the block of input boxes and the block of
\* output boxes have the same vertical midpoint, and the taller column
\* spans from height - top_padding down to bottom_padding.
C4_Centered ==
    (pc = "drawn" /\ mapping.inputs # <<>> /\ mapping.outputs # <<>>) =>
        LET ins == CallSeq("roundRect", "in")
            outs == CallSeq("roundRect", "out")
            in_top == RectTop2(ins[1])
            in_bottom == RectBottom2(ins[Len(ins)])
            out_top == RectTop2(outs[1])
            out_bottom == RectBottom2(outs[Len(outs)])
        IN  /\ in_top + in_bottom = out_top + out_bottom
            /\ input_height_total >= output_height_total =>
                 /\ in_top = 2 * (height - top_padding)
                 /\ in_bottom = 2 * bottom_padding
            /\ output_height_total >= input_height_total =>
                 /\ out_top = 2 * (height - top_padding)
                 /\ out_bottom = 2 * bottom_padding

\* one input box centred against two output boxes
C4_Witness ==
    /\ pc = "drawn"
    /\ Len(mapping.inputs) = 1
    /\ Len(mapping.outputs) = 2
    /\ input_height_total < output_height_total
    /\ RectTop2(CallSeq("roundRect", "in")[1]) < 2 * (height - top_padding)

\* C5: the height of the diagram is the larger of the two column totals
\* plus 8 + 8 of padding, for every pair of lists (empty ones included), and
\* wrap reports that height.
C5_Height ==
    pc # "new" =>
        /\ height = Max(ColumnSum(processed_inputs, Len(processed_inputs), 22),
                        ColumnSum(processed_outputs, Len(processed_outputs), 26))
                    + 8 + 8
        /\ pc \in {"wrapped", "drawn"} => wrapped[2] = height

\* no inputs, two outputs
C5_Witness ==
    /\ pc = "wrapped"
    /\ mapping.inputs = <<>>
    /\ Len(mapping.outputs) = 2
    /\ height = output_height_total + 16

\* C6: a column total is the sum of its node heights plus the column gap
\* times (count - 1), and 0 for an empty list.
C6_ColumnTotal ==
    pc # "new" =>
        /\ Len(processed_inputs) = Len(mapping.inputs)
        /\ Len(processed_outputs) = Len(mapping.outputs)
        /\ input_height_total =
             IF mapping.inputs = <<>> THEN 0
             ELSE SumSeq(Heights(processed_inputs))
                  + 22 * (Len(mapping.inputs) - 1)
        /\ output_height_total =
             IF mapping.outputs = <<>> THEN 0
             ELSE SumSeq(Heights(processed_outputs))
                  + 26 * (Len(mapping.outputs) - 1)
        /\ input_height_total >= 0
        /\ output_height_total >= 0

\* an empty input list next to two outputs
C6_Witness ==
    /\ pc = "constructed"
    /\ mapping.inputs = <<>>
    /\ input_height_total = 0
    /\ Len(mapping.outputs) = 2
    /\ output_height_total > 26

\* C7: every curve starts at the right edge of the input column, at the
\* y-centre of an input node named by the entry, and ends on the junction
\* line at the y-centre of its output node; start and end differ in x.
C7_CurveEnds ==
    pc = "drawn" =>
        \A k \in CallsOf("bezier", "conn") :
           LET c == canvas[k]
               text == processed_outputs[c.idx].sources[c.src]
           IN  /\ c.args[1] = 2 * (left_x + input_box_width)
               /\ \E i \in 1..Len(input_nodes) :
                     /\ NamesInput(text, i)
                     /\ c.args[2] = input_nodes[i].center[2]
               /\ c.args[7] = 2 * junction_x
               /\ c.args[8] = output_nodes[c.idx].center[2]
               /\ c.args[1] < c.args[7]

\* two curves from two different inputs ending in the same point
C7_Witness ==
    /\ pc = "drawn"
    /\ \E j, k \in CallsOf("bezier", "conn") :
          /\ j # k
          /\ canvas[j].idx = canvas[k].idx
          /\ canvas[j].args[2] # canvas[k].args[2]
          /\ canvas[j].args[7] = canvas[k].args[7]
          /\ canvas[j].args[8] = canvas[k].args[8]

\* the heights _prepare_inputs / _prepare_outputs must give, from the mapping
ExpectedBullets(bullets, leading) ==
    IF bullets = <<>> THEN 0
    ELSE 6 + SumSeq([j \in 1..Len(bullets) |-> bullets[j] * leading])
         + 3 * (Len(bullets) - 1)

\* C8 (as amended): an output box is as high as the larger of 38 and top
\* padding + label height + bottom padding + (with bullets) a gap of 6, the
\* bullet heights and 3 between consecutive bullets; an input box likewise
\* with a minimum of 32; so no box is below its minimum or below padding +
\* label height + bullet heights.
C8_BoxHeights ==
    pc # "new" =>
        /\ \A i \in 1..Len(mapping.outputs) :
             LET o == mapping.outputs[i]
                 h == processed_outputs[i].height
             IN  /\ h = Max(38, 8 + 13 * o.lines + ExpectedBullets(o.bullets, 12) + 8)
                 /\ h >= 38
                 /\ h >= 8 + processed_outputs[i].label_height
                         + SumSeq(processed_outputs[i].bullet_heights) + 8
        /\ \A i \in 1..Len(mapping.inputs) :
             LET e == mapping.inputs[i]
                 bullets == IF e.str THEN <<>> ELSE e.bullets
                 h == processed_inputs[i].height
             IN  /\ h = Max(32, 8 + 12 * e.lines + ExpectedBullets(bullets, 11) + 8)
                 /\ h >= 32
                 /\ h >= 8 + processed_inputs[i].label_height
                         + SumSeq(processed_inputs[i].bullet_heights) + 8

\* C8 as stated: the output height is the larger of 38 and top padding +
\* label height + bullet heights + bottom padding.
C8_OutputHeightAsStated ==
    pc # "new" =>
        \A i \in 1..Len(processed_outputs) :
           processed_outputs[i].height =
               Max(38, output_padding_top + processed_outputs[i].label_height
                       + SumSeq(processed_outputs[i].bullet_heights)
                       + output_padding_bottom)

\* an output with two bullets above its minimum, an input at its minimum
C8_Witness ==
    /\ pc = "constructed"
    /\ \E i \in 1..Len(processed_outputs) :
          /\ Len(processed_outputs[i].bullet_heights) = 2
          /\ processed_outputs[i].height > 38
    /\ \E i \in 1..Len(processed_outputs) : processed_outputs[i].height = 38
    /\ \E i \in 1..Len(processed_inputs) : processed_inputs[i].height = 32
    /\ \E i \in 1..Len(processed_inputs) : processed_inputs[i].height > 32

\* C9: a reference that equals the key of some input node starts its curve
\* at a node whose key it equals (labels are only a fallback).
C9_KeyBeforeLabel ==
    pc = "drawn" =>
        \A k \in CallsOf("bezier", "conn") :
           LET c == canvas[k]
               text == processed_outputs[c.idx].sources[c.src]
           IN  (\E i \in 1..Len(input_nodes) : input_nodes[i].key = text) =>
                   \E i \in 1..Len(input_nodes) :
                      /\ input_nodes[i].key = text
                      /\ c.args[2] = input_nodes[i].center[2]
(***************************************************************************)
(* Properties of main and build_story                                      *)
(***************************************************************************)
\* the unsuffixed dated name of today
DatedTarget == <<date, 0>>

\* C2: a run that finds an artifact at the dated target path first copies
\* it into the archive under a time-stamped name and then writes the
\* artifact at that same path.
C2_ArchiveThenOverwrite ==
    (mpc = "done" /\ DatedTarget \in files_before) =>
        /\ output_file = DatedTarget
        /\ \E i, j \in 1..Len(fs_ops) :
              /\ i < j
              /\ fs_ops[i][1] = "copy"
              /\ fs_ops[i][2] = DatedTarget
              /\ fs_ops[i][3] \in archive
              /\ fs_ops[j] = <<"write", DatedTarget>>

\* C10: a story built from data without experience_fusion (without skills)
\* holds no element of that section, its title included.
C10_MissingSectionOmitted ==
    mpc = "done" =>
        /\ data.experience_fusion = "absent" =>
              \A k \in 1..Len(story) : story[k].section # "experience_fusion"
        /\ ~data.skills =>
              \A k \in 1..Len(story) : story[k].section # "skills"
\* C11: while a required font file is missing, a run ends in register_fonts
\* before anything is rendered: no path is picked, no story is built, and
\* nothing is written to or copied from the output directory.
C11_MissingFontIsFatal ==
    (mpc # "idle" /\ \E f \in FontSet : f \notin fonts) =>
        /\ mpc \in {"register_fonts", "failed"}
        /\ story = <<>>
        /\ output_file = None
        /\ fs_ops = <<>>
        /\ files = files_before

\* a run that failed on a missing font, after an earlier run wrote an artifact
C11_Witness ==
    /\ mpc = "failed"
    /\ \E f \in FontSet : f \notin fonts
    /\ files # {}
    /\ registered # FontSet
\* C15: the path picked by output_path_for_today does not exist when it is
\* picked: it is the unsuffixed dated name if that is free, and otherwise the
\* dated name with the smallest free positive suffix; so a run adds one new
\* file and overwrites no artifact that existed.
C15_FreshPath ==
    mpc \in {"build", "done"} =>
        /\ output_file \notin files_before
        /\ output_file[1] = date
        /\ DatedTarget \notin files_before => output_file = DatedTarget
        /\ DatedTarget \in files_before =>
              /\ output_file[2] >= 1
              /\ \A n \in 1..(output_file[2] - 1) : <<date, n>> \in files_before
        /\ mpc = "done" =>
              /\ files = files_before \cup {output_file}
              /\ Cardinality(files) = Cardinality(files_before) + 1
              /\ fs_ops = <<<<"write", output_file>>>>

\* suffix 1 is picked although suffix 2 exists (suffix 1 had been deleted)
C15_Witness ==
    /\ mpc = "done"
    /\ output_file = <<date, 1>>
    /\ DatedTarget \in files_before
    /\ <<date, 2>> \in files_before
\* the calls that draw connectors, boxes of either column, and text
IsConnectorCall(c) == c.op \in {"bezier", "line"}
IsBoxOrTextCall(c) == c.op \in {"roundRect", "drawOn"}
IsInputBox(c) == c.op = "roundRect" /\ c.args[1] = 2 * left_x
IsOutputBox(c) == c.op = "roundRect" /\ c.args[1] = 2 * output_left

\* C13: within one draw every curve and arrow call is issued before any box
\* or text call, and every input box before any output box.
C13_DrawOrder ==
    pc = "drawn" =>
        \A i, j \in 1..Len(canvas) :
           /\ (IsConnectorCall(canvas[i]) /\ IsBoxOrTextCall(canvas[j])) => i < j
           /\ (IsInputBox(canvas[i]) /\ IsOutputBox(canvas[j])) => i < j

\* a draw with a curve, an arrow, two input boxes and two output boxes
C13_Witness ==
    /\ pc = "drawn"
    /\ \E k \in 1..Len(canvas) : canvas[k].op = "bezier"
    /\ \E k \in 1..Len(canvas) : canvas[k].op = "line"
    /\ Cardinality({k \in 1..Len(canvas) : IsInputBox(canvas[k])}) = 2
    /\ Cardinality({k \in 1..Len(canvas) : IsOutputBox(canvas[k])}) = 2

\* the line calls issued for output o
LinesOf(o) == {k \in CallsOf("line", "conn") : canvas[k].idx = o}

\* C16: for every output node exactly one straight segment from the
\* junction line to 6 left of the box and the two lines of its arrowhead
\* are drawn, whatever its sources are, and no line is drawn otherwise.
C16_OneArrowPerOutput ==
    pc = "drawn" =>
        /\ \A o \in 1..Len(mapping.outputs) :
             LET y == output_nodes[o].center[2]
                 tip == <<2 * (output_left - 6), y>>
             IN  /\ Cardinality(LinesOf(o)) = 3
                 /\ Cardinality({k \in LinesOf(o) :
                        canvas[k].args = <<2 * junction_x, y, tip[1], tip[2]>>}) = 1
                 /\ Cardinality({k \in LinesOf(o) :
                        /\ canvas[k].args[1] = tip[1]
                        /\ canvas[k].args[2] = tip[2]
                        /\ canvas[k].args[3] < tip[1]
                        /\ canvas[k].args[4] # tip[2]}) = 2
        /\ Cardinality(CallsOf("line", "conn")) = 3 * Len(mapping.outputs)
        /\ \A k \in 1..Len(canvas) : canvas[k].op = "line" => canvas[k].col = "conn"

\* an output without sources and an output whose only source is unmatched,
\* each with its arrow and without a curve
C16_Witness ==
    /\ pc = "drawn"
    /\ CallsOf("bezier", "conn") = {}
    /\ \E o, q \in 1..Len(mapping.outputs) :
          /\ mapping.outputs[o].sources = <<>>
          /\ mapping.outputs[q].sources = <<"b">>
          /\ Cardinality(LinesOf(o)) = 3
          /\ Cardinality(LinesOf(q)) = 3

(***************************************************************************)
(* The composed markups.                                                   *)
(***************************************************************************)
\* every markup composed so far, measured or drawn
MarkupsOf(m) ==
    IF m = <<>> THEN {}
    ELSE {m.in_label, m.out_label}
            \cup {m.in_bullets[i] : i \in 1..Len(m.in_bullets)}
            \cup {m.out_bullets[i] : i \in 1..Len(m.out_bullets)}
ComposedMarkups == MarkupsOf(t_measured) \cup MarkupsOf(t_drawn)

\* the entities the code writes into markup
MarkupEntities ==
    {AmpEntity, GtEntity, LtEntity,
     <<"&", "b", "u", "l", "l", ";">>, <<"&", "n", "b", "s", "p", ";">>}
StartsEntityAt(m, i) ==
    \E e \in MarkupEntities :
        /\ i + Len(e) - 1 <= Len(m)
        /\ SubSeq(m, i, i + Len(e) - 1) = e

\* no "<" or ">" stands in the markup, and every "&" opens an entity
NoReservedSurvives(m) ==
    \A i \in 1..Len(m) :
        /\ m[i] \notin {"<", ">"}
        /\ m[i] = "&" => StartsEntityAt(m, i)
NoQuoteSurvives(m) == \A i \in 1..Len(m) : m[i] \notin {"\"", "'"}

\* the escaped form of a raw text, character by character
EscapedChar(c) ==
    CASE c = "&" -> AmpEntity
      [] c = "<" -> LtEntity
      [] c = ">" -> GtEntity
      [] OTHER -> <<c>>
RECURSIVE Escaped(_)
Escaped(t) ==
    IF t = <<>> THEN <<>> ELSE EscapedChar(Head(t)) \o Escaped(Tail(t))
EscapedOrEmpty(t) == IF TextFalsy(t) THEN <<>> ELSE Escaped(t)
ExpectedBulletMarkups(bullets) ==
    [i \in 1..Len(bullets) |-> BulletPrefix \o Escaped(bullets[i])]
ExpectedOutputLabel(output) ==
    IF TextFalsy(output.alias) THEN Escaped(output.label)
    ELSE Escaped(output.label) \o <<" ">> \o Escaped(output.alias)

\* C12 as stated: in every composed markup none of &, <, > survives
\* unescaped and no quote character survives either
C12_NoReservedNorQuote ==
    \A m \in ComposedMarkups : NoReservedSurvives(m) /\ NoQuoteSurvives(m)

\* C12 amended: every raw label, alias, badge and bullet text is escaped
\* before composition, so none of &, <, > survives unescaped in a composed
\* markup (each becomes its entity, "&" once only); quote characters are not
\* touched and stand in the markup as they were given
C12_ReservedEscaped ==
    /\ \A m \in ComposedMarkups : NoReservedSurvives(m)
    /\ tpc # "new" =>
          /\ \E prefix \in {t_input.badge, <<"0">>} :
                t_measured.in_label =
                    EscapedOrEmpty(prefix) \o <<".", " ">> \o Escaped(t_input.label)
          /\ t_measured.in_bullets = ExpectedBulletMarkups(t_input.bullets)
          /\ t_measured.out_label = ExpectedOutputLabel(t_output)
          /\ t_measured.out_bullets = ExpectedBulletMarkups(t_output.bullets)
    /\ tpc = "drawn" =>
          /\ \E prefix \in {t_input.badge, Str(t_idx + 1)} :
                t_drawn.in_label =
                    EscapedOrEmpty(prefix) \o <<".", " ">> \o Escaped(t_input.label)
          /\ t_drawn.in_bullets = ExpectedBulletMarkups(t_input.bullets)
          /\ t_drawn.out_label = ExpectedOutputLabel(t_output)
          /\ t_drawn.out_bullets = ExpectedBulletMarkups(t_output.bullets)

\* a drawn input whose badge, label and bullet hold "&", "<", a quote and ">"
C12_Witness ==
    /\ tpc = "drawn"
    /\ t_input.badge = <<"&">>
    /\ t_input.label = <<"<", "\"">>
    /\ t_input.bullets = <<<<">">>>>
    /\ t_drawn.in_label =
          <<"&", "a", "m", "p", ";", ".", " ", "&", "l", "t", ";", "\"">>

\* C14: an input without a badge carries its 1-based position both in the
\* label measured to size its box and in the label drawn inside the box, so
\* the two are the same text
C14_PositionMeasuredAndDrawn ==
    (tpc = "drawn" /\ TextFalsy(t_input.badge)) =>
        /\ t_drawn.in_label =
              Str(t_idx + 1) \o <<".", " ">> \o Escaped(t_input.label)
        /\ t_measured.in_label = t_drawn.in_label
====
